---- MODULE Spec2Model ----
(***************************************************************************)
(* fundit-backend: the goal-tracking engine (General Saving, Savings Goal, *)
(* Repayment Goal rows with a running amount), its History audit log, and  *)
(* the ledger of Income, Expense and Budget rows.                          *)
(*                                                                         *)
(* Money is counted in pence (a DecimalField with decimal_places=2), dates  *)
(* are the integer yyyymmdd, which orders as the calendar does.             *)
(***************************************************************************)
EXTENDS Integers, Sequences, FiniteSets, TLC

\* ------------------------------------------------------------------ bounds
MaxOps == 2          \* requests served and clock ticks in one behaviour
TickHours == 13      \* hours per clock tick
MaxAuthOps == 4      \* requests served in a run of registration and sign-in

\* --------------------------------------------------------------- constants
GuestMaxAgeHours == 12

None == "None"

\* History.user is nullable: the NULL foreign key (user keys start at 1)
NoUser == 0

Kinds == {"general_saving", "savings_goal", "repayment_goal"}

EntryKinds == {"income", "expense", "budget"}

\* a DateField holding NULL (dates are yyyymmdd, above zero)
NoDate == 0

\* date.today().year when the services module was loaded
current_year == 2025

\* goal_field of the three viewsets
goal_field(kind) == IF kind = "general_saving" THEN "amount" ELSE "current_amount"

VARIABLES
    users,      \* CustomUser rows: set of [id, is_guest, date_joined]
    nextUid,    \* next primary key of the CustomUser table
    goals,      \* General_Saving / Savings_Goal / Repayment_Goal rows
    history,    \* History rows
    nextId,     \* next primary key of each goal table
    nextHid,    \* next primary key of the History table
    resp,       \* the response to the last request
    workers,    \* ConcSpec: the update-amount request each server worker is in
    audit,      \* history variable: per goal row, how it got its running amount
    now,        \* wall clock, in hours
    nops,       \* requests counted against MaxOps
    entries,    \* Income / Expense / Budget rows
    nextEid     \* next primary key of each of these three tables

vars == <<users, nextUid, goals, history, nextId, nextHid, resp, workers, audit, now,
          nops, entries, nextEid>>

Workers == {1, 2}

\* --------------------------------------------------------- request inputs
\* request.data of update_amount. amount is a decimal literal (its value in
\* pence), some other text, or missing; date is "YYYY-MM-DD", "YYYY-MM", some
\* other text, or missing.
Pence(n) == [form |-> "decimal", pence |-> n]

Day(y, m, d) == [form |-> "ymd", y |-> y, m |-> m, d |-> d]

Month(y, m) == [form |-> "ym", y |-> y, m |-> m, d |-> 0]

Other == [form |-> "text", y |-> 0, m |-> 0, d |-> 0]

Missing == [form |-> "missing", y |-> 0, m |-> 0, d |-> 0]

Body(action, amount, date) == [action |-> action, amount |-> amount, date |-> date]

UpdateBodies ==
    { Body("add", Pence(20000), Day(2025, 4, 1)),
      Body("remove", Pence(30000), Month(2025, 6)),
      Body("remove", Pence(30000), Day(2025, 6, 15)),
      Body("multiply", Pence(20000), Day(2025, 4, 1)),
      Body(None, Pence(20000), Day(2025, 4, 1)),
      Body("add", [form |-> "text", pence |-> 0], Day(2025, 4, 1)),
      Body("add", [form |-> "missing", pence |-> 0], Day(2025, 4, 1)),
      Body("add", Pence(20000), Other),
      Body("add", Pence(20000), Missing),
      Body("add", Pence(20000), Day(2025, 2, 30)),
      Body("multiply", [form |-> "text", pence |-> 0], Missing) }

\* request.data of update_amount with a decimal amount that is not above zero
SignedBodies ==
    { Body("add", Pence(0), Day(2025, 4, 1)),
      Body("remove", Pence(-5000), Day(2025, 4, 1)),
      Body("add", Pence(-5000), Month(2025, 6)) }

\* the running field in a create / edit request body: a value in pence, null,
\* or not in the body at all
RunningInputs ==
    { [given |-> "value", pence |-> 80000],
      [given |-> "null", pence |-> 0],
      [given |-> "omitted", pence |-> 0] }

\* goal_amount in a create request body of a Savings / Repayment Goal
GoalAmountInputs == {90000}

Ymd(y, m, d) == y * 10000 + m * 100 + d

\* a key the request body does not have
Omitted == "<omitted>"

\* a date field of a request body: a date, null, or not in the body
DateInput(d) == [given |-> "value", date |-> d]

NullDate == [given |-> "null", date |-> NoDate]

OmittedDate == [given |-> "omitted", date |-> NoDate]

\* the other fields of a goal request body that the model follows
GoalForm(category, deadline_ongoing, deadline) ==
    [category |-> category, deadline_ongoing |-> deadline_ongoing, deadline |-> deadline]

\* the body of a request that sets none of them
EmptyForm == GoalForm(Omitted, Omitted, OmittedDate)

\* a body as the goals page sends it for a new goal with a deadline
DefaultForm(kind) ==
    IF kind = "general_saving" THEN EmptyForm
    ELSE GoalForm("other", "no", DateInput(Ymd(current_year, 12, 31)))

\* the bodies tried against the field rules of the goal serializers
GoalForms ==
    { GoalForm("other", "no", DateInput(Ymd(current_year, 12, 31))),
      GoalForm("other", "no", OmittedDate),
      GoalForm("other", "no", NullDate),
      GoalForm("other", "yes", DateInput(Ymd(current_year, 12, 31))),
      GoalForm("other", "yes", OmittedDate),
      GoalForm("custom", "yes", OmittedDate),
      GoalForm("other", "fixed", OmittedDate),
      GoalForm(Omitted, "no", OmittedDate),
      GoalForm(Omitted, Omitted, NullDate),
      EmptyForm }

\* the body of an Income / Expense / Budget request (amount left out of the
\* model)
EntryForm(category, custom_category, recurring_monthly, date) ==
    [category |-> category, custom_category |-> custom_category,
     recurring_monthly |-> recurring_monthly, date |-> date]

EntryForms ==
    { EntryForm("custom", "", "yes", DateInput(Ymd(current_year, 5, 15))),
      EntryForm("custom", Omitted, "yes", DateInput(Ymd(current_year, 5, 15))),
      EntryForm("custom", "Etsy", "yes", DateInput(Ymd(current_year, 5, 15))),
      EntryForm("savings", "", "no", DateInput(Ymd(current_year, 5, 15))),
      EntryForm("savings", "", "no", OmittedDate),
      EntryForm("bogus", "", "yes", DateInput(Ymd(current_year, 5, 15))),
      EntryForm(Omitted, "", Omitted, OmittedDate),
      EntryForm("custom", Omitted, Omitted, OmittedDate) }

\* bodies with dates on both sides of the ends of November and December
LedgerForms ==
    { EntryForm("other", "", r, DateInput(d)) :
        r \in {"yes", "no"},
        d \in { Ymd(current_year, 11, 30), Ymd(current_year, 12, 1),
                Ymd(current_year, 12, 31), Ymd(current_year + 1, 1, 1) } }

\* ---------------------------------------------------------------- helpers
Key(g) == <<g.kind, g.id>>

Row(kind, id) == CHOOSE g \in goals : g.kind = kind /\ g.id = id

Exists(kind, id) == \E g \in goals : g.kind = kind /\ g.id = id

\* mutant: the queryset is not narrowed to the requester
get_queryset_All(user, kind) == { g \in goals : g.kind = kind }

\* self.queryset.filter(user=self.request.user)
get_queryset(user, kind) == { g \in goals : g.kind = kind /\ g.user = user }

\* get_object(): the row of the filtered queryset with that pk, or Http404
Found(user, kind, id) == \E g \in get_queryset(user, kind) : g.id = id

IsLeap(y) == (y % 4 = 0 /\ y % 100 # 0) \/ y % 400 = 0

DaysIn(y, m) ==
    IF m = 2 THEN (IF IsLeap(y) THEN 29 ELSE 28)
    ELSE IF m \in {4, 6, 9, 11} THEN 30 ELSE 31

\* ------------------------------------------------- update_amount: parsing
\* mutant: only InvalidOperation is caught, and no amount counts as 0
DecimalOk_Lenient(amount_str) == amount_str.form # "text"

\* Decimal(amount_str) inside try/except (TypeError, ValueError, InvalidOperation)
DecimalOk(amount_str) == amount_str.form = "decimal"

\* mutant: the first day of the month is appended
AppendDay_FirstDay(date_str) ==
    IF date_str.form = "ym"
    THEN [form |-> "ymd", y |-> date_str.y, m |-> date_str.m, d |-> 1]
    ELSE date_str

\* if date_str and len(date_str) == 7: date_str += '-15'
AppendDay(date_str) ==
    IF date_str.form = "ym"
    THEN [form |-> "ymd", y |-> date_str.y, m |-> date_str.m, d |-> 15]
    ELSE date_str

\* django.utils.dateparse.parse_date: None for text of another shape, an
\* exception for no text at all and for a well-shaped text naming no calendar
\* day, else the date
parse_date(date_str) ==
    IF date_str.form = "missing" THEN [is |-> "TypeError", date |-> 0]
    ELSE IF date_str.form # "ymd" THEN [is |-> None, date |-> 0]
    ELSE IF /\ date_str.y >= 1
            /\ date_str.m \in 1..12
            /\ date_str.d \in 1..DaysIn(date_str.y, date_str.m)
         THEN [is |-> "date", date |-> Ymd(date_str.y, date_str.m, date_str.d)]
         ELSE [is |-> "ValueError", date |-> 0]

\* --------------------------------------------- services.update_goal_with_history
\* mutant: the two branches exchanged
NewAmount_Swapped(old, action_type, amount) ==
    IF action_type = "add" THEN old - amount ELSE old + amount

\* mutant: a removal stops at zero
NewAmount_Clamped(old, action_type, amount) ==
    IF action_type = "add" THEN old + amount
    ELSE IF old - amount < 0 THEN 0 ELSE old - amount

\* lines 15-18: the new value of the running field
NewAmount(old, action_type, amount) ==
    IF action_type = "add" THEN old + amount ELSE old - amount

\* lines 24-30: the History row the call inserts (no user is passed)
NewHistory(hid, action_type, amount, date, kind, id) ==
    [id |-> hid, user |-> NoUser, date |-> date, action |-> action_type,
     amount |-> amount, content_type |-> kind, object_id |-> id]

\* goal_instance.save(): the row written back with its new running amount
SaveGoal(g, value) == (goals \ {g}) \cup {[g EXCEPT !.amount = value]}

\* What update_amount answers before it writes anything; status 0: it goes on
\* to save the row and insert the History row.
Precheck(user, kind, id, action_type, amount_str, date_str) ==
    IF ~Found(user, kind, id)
    THEN [status |-> 500, body |-> "No row matches the given query."]
    ELSE IF ~DecimalOk(amount_str)
    THEN [status |-> 400, body |-> "Invalid amount"]
    ELSE IF parse_date(AppendDay(date_str)).is \in {"TypeError", "ValueError"}
    THEN [status |-> 500, body |-> parse_date(AppendDay(date_str)).is]
    ELSE IF parse_date(AppendDay(date_str)).is = None
    THEN [status |-> 400, body |-> "Invalid date format. Use YYYY-MM-DD."]
    ELSE IF action_type \notin {"add", "remove"}
    THEN [status |-> 500, body |-> "Invalid action type"]
    ELSE IF Row(kind, id).is_null
    THEN [status |-> 500, body |-> "unsupported operand type(s)"]
    ELSE [status |-> 0, body |-> ""]

Updated(kind) == [status |-> 200, body |-> goal_field(kind) \o " updated"]

\* history variable: one more successful update-amount call on the row
AuditCall(key, action_type, amount) ==
    [audit EXCEPT ![key].n = @ + 1,
                  ![key].net = NewAmount(@, action_type, amount)]

\* history variable: the row's running amount was written some other way
AuditOther(key) == [audit EXCEPT ![key].clean = FALSE]

UserIds == { u.id : u \in users }

\* one more request served
Served == nops < MaxOps /\ nops' = nops + 1

\* ids a request can name: the rows of the table, and one that names none
UrlIds(kind) == { g.id : g \in { r \in goals : r.kind = kind } } \cup {nextId[kind]}

\* POST <kind>/<pk>/update_amount/ served from start to end
UpdateAmount(user, kind, id, action_type, amount_str, date_str, inserted) ==
    /\ Served
    /\ LET pre == Precheck(user, kind, id, action_type, amount_str, date_str)
       IN
        IF pre.status # 0
        THEN /\ resp' = pre
             /\ UNCHANGED <<users, nextUid, goals, history, nextId, nextHid, workers, audit, now, entries, nextEid>>
        ELSE LET goal == Row(kind, id)
                 amount == amount_str.pence
                 date == parse_date(AppendDay(date_str)).date
                 value == NewAmount(goal.amount, action_type, amount)
             IN  /\ goals' = SaveGoal(goal, value)
                 /\ IF inserted
                    THEN /\ history' = history \cup
                                {NewHistory(nextHid, action_type, amount, date, kind, id)}
                         /\ nextHid' = nextHid + 1
                         /\ audit' = AuditCall(<<kind, id>>, action_type, amount)
                         /\ resp' = Updated(kind)
                    ELSE /\ UNCHANGED <<history, nextHid>>
                         /\ audit' = AuditOther(<<kind, id>>)
                         /\ resp' = [status |-> 500, body |-> "History insert failed"]
                 /\ UNCHANGED <<users, nextUid, nextId, workers, now, entries, nextEid>>

\* ------------------------------------------------------- create, edit, delete
\* DRF field rules of the ModelSerializers (fields = '__all__', only user
\* read-only): General_Saving.amount is required and not nullable;
\* current_amount is optional (default 0.00) and nullable.
RunningAccepted(kind, running, partial) ==
    IF kind = "general_saving"
    THEN running.given = "value" \/ (partial /\ running.given = "omitted")
    ELSE TRUE

\* CATEGORY_CHOICES of the two goal models (neither has 'custom')
GoalChoices(kind) ==
    IF kind = "savings_goal"
    THEN {"emergency fund", "travel / holiday", "new home", "home renovation",
          "car / vehicle", "education / courses", "wedding / event",
          "tech / gadgets", "christmas / gifts", "special event", "gifts",
          "rainy day fund", "investment fund", "luxury purchase", "other"}
    ELSE IF kind = "repayment_goal"
    THEN {"credit card", "loan", "student loan", "mortgage", "car finance",
          "buy now pay later", "medical bills", "overdraft", "utility arrears",
          "tax debt", "family or friend loan", "business loan", "other"}
    ELSE {}

\* RECURRING_CHOICES
YesNo == {"yes", "no"}

\* a ChoiceField of a ModelSerializer: required unless the update is
\* partial, and one of the choices
ChoiceAccepted(value, choices, partial) ==
    IF value = Omitted THEN partial ELSE value \in choices

\* is_valid() of SavingsGoalSerializer / RepaymentGoalSerializer for the
\* fields followed: category and deadline_ongoing are choice fields,
\* deadline may be null or left out; the serializers add no validate()
\* and the models no clean(). General_Saving has none of these fields.
FormAccepted(kind, form, partial) ==
    IF kind = "general_saving" THEN TRUE
    ELSE /\ ChoiceAccepted(form.category, GoalChoices(kind), partial)
         /\ ChoiceAccepted(form.deadline_ongoing, YesNo, partial)

NewGoal(user, kind, id, running, goal_amount, form) ==
    [kind |-> kind, id |-> id, user |-> user,
     amount |-> running.pence, is_null |-> (running.given = "null"),
     goal_amount |-> IF kind = "general_saving" THEN 0 ELSE goal_amount,
     category |-> IF kind = "general_saving" THEN "" ELSE form.category,
     deadline_ongoing |-> IF kind = "general_saving" THEN "" ELSE form.deadline_ongoing,
     deadline |-> IF kind = "general_saving" THEN NoDate ELSE form.deadline.date]

NewAudit(g) == Key(g) :> [c |-> g.amount, n |-> 0, net |-> 0, clean |-> TRUE]

\* mutant: creating a row writes a first History row for its opening amount
CreateGoal_Logged(user, kind, running, goal_amount, form) ==
    /\ Served
    /\ RunningAccepted(kind, running, FALSE)
    /\ FormAccepted(kind, form, FALSE)
    /\ LET g == NewGoal(user, kind, nextId[kind], running, goal_amount, form)
       IN  /\ goals' = goals \cup {g}
           /\ nextId' = [nextId EXCEPT ![kind] = @ + 1]
           /\ audit' = audit @@ NewAudit(g)
           /\ history' = history \cup
                  {[id |-> nextHid, user |-> NoUser, date |-> Ymd(2025, 1, 1),
                    action |-> "add", amount |-> g.amount,
                    content_type |-> kind, object_id |-> g.id]}
           /\ nextHid' = nextHid + 1
           /\ resp' = [status |-> 201, body |-> "row"]
    /\ UNCHANGED <<users, nextUid, workers, now, entries, nextEid>>

\* POST general-savings/add/, savings-goal/add/, repayments-goal/add/ and the
\* viewsets' create: serializer.save(user=self.request.user)
CreateGoal(user, kind, running, goal_amount, form) ==
    /\ Served
    /\ IF RunningAccepted(kind, running, FALSE) /\ FormAccepted(kind, form, FALSE)
       THEN LET g == NewGoal(user, kind, nextId[kind], running, goal_amount, form)
            IN  /\ goals' = goals \cup {g}
                /\ nextId' = [nextId EXCEPT ![kind] = @ + 1]
                /\ audit' = audit @@ NewAudit(g)
                /\ resp' = [status |-> 201, body |-> "row"]
       ELSE /\ resp' = [status |-> 400, body |-> "error"]
            /\ UNCHANGED <<goals, nextId, audit>>
    /\ UNCHANGED <<users, nextUid, history, nextHid, workers, now, entries, nextEid>>

\* the row after the serializer has written the body's fields to it
Edited(g, running, form) ==
    LET r == IF running.given = "omitted" THEN g
             ELSE [g EXCEPT !.amount = running.pence,
                            !.is_null = (running.given = "null")]
    IN  IF g.kind = "general_saving" THEN r
        ELSE [r EXCEPT
                !.category = IF form.category = Omitted THEN @ ELSE form.category,
                !.deadline_ongoing = IF form.deadline_ongoing = Omitted THEN @
                                     ELSE form.deadline_ongoing,
                !.deadline = IF form.deadline.given = "omitted" THEN @
                             ELSE form.deadline.date]

\* PUT / PATCH <kind>/<pk>/ of the ModelViewSets
EditGoal(user, kind, id, running, partial, form) ==
    /\ Served
    /\ IF ~Found(user, kind, id)
       THEN /\ resp' = [status |-> 404, body |-> "error"]
            /\ UNCHANGED <<goals, audit>>
       ELSE IF ~(RunningAccepted(kind, running, partial) /\ FormAccepted(kind, form, partial))
       THEN /\ resp' = [status |-> 400, body |-> "error"]
            /\ UNCHANGED <<goals, audit>>
       ELSE LET g == Row(kind, id)
            IN  /\ goals' = (goals \ {g}) \cup {Edited(g, running, form)}
                /\ audit' = IF Edited(g, running, EmptyForm) = g THEN audit
                            ELSE AuditOther(Key(g))
                /\ resp' = [status |-> 200, body |-> "row"]
    /\ UNCHANGED <<users, nextUid, history, nextId, nextHid, workers, now, entries, nextEid>>

Restrict(f, keys) == [k \in DOMAIN f \cap keys |-> f[k]]

\* mutant: the row's History rows go with it
DeleteGoal_Cascade(user, kind, id) ==
    /\ Served
    /\ IF ~Found(user, kind, id)
       THEN /\ resp' = [status |-> 404, body |-> "error"]
            /\ UNCHANGED <<goals, audit, history>>
       ELSE /\ goals' = goals \ {Row(kind, id)}
            /\ history' = { h \in history :
                              ~(h.content_type = kind /\ h.object_id = id) }
            /\ audit' = Restrict(audit, { Key(g) : g \in goals' })
            /\ resp' = [status |-> 204, body |-> ""]
    /\ UNCHANGED <<users, nextUid, nextId, nextHid, workers, now, entries, nextEid>>

\* DELETE <kind>/<pk>/ of the ModelViewSets: nothing refers to the row by a
\* foreign key, so only the row goes
DeleteGoal(user, kind, id) ==
    /\ Served
    /\ IF ~Found(user, kind, id)
       THEN /\ resp' = [status |-> 404, body |-> "error"]
            /\ UNCHANGED <<goals, audit>>
       ELSE /\ goals' = goals \ {Row(kind, id)}
            /\ audit' = Restrict(audit, { Key(g) : g \in goals' })
            /\ resp' = [status |-> 204, body |-> ""]
    /\ UNCHANGED <<users, nextUid, history, nextId, nextHid, workers, now, entries, nextEid>>

\* ------------------------------------------------ Income, Expense, Budget
\* CATEGORY_CHOICES of Income, and of Expense and Budget
EntryChoices(kind) ==
    IF kind = "income"
    THEN {"salary", "extra income", "investments", "pension", "other", "custom"}
    ELSE {"housing", "transport", "food", "healthcare", "personal",
          "entertainment", "debt", "savings", "miscellaneous", "custom"}

\* is_valid() of IncomeSerializer / ExpenseSerializer / BudgetSerializer:
\* the field rules the ModelSerializer derives from the model fields.
\* custom_category is blank=True; Budget.date is blank=True, null=True.
\* The serializers add no validate() and nothing calls the model's
\* clean() / full_clean().
EntryAccepted(kind, form, partial) ==
    /\ ChoiceAccepted(form.category, EntryChoices(kind), partial)
    /\ ChoiceAccepted(form.recurring_monthly, YesNo, partial)
    /\ \/ form.date.given = "value"
       \/ form.date.given = "omitted" /\ partial
       \/ kind = "budget"

NewEntry(user, kind, id, form) ==
    [kind |-> kind, id |-> id, user |-> user, category |-> form.category,
     custom_category |-> IF form.custom_category = Omitted THEN ""
                         ELSE form.custom_category,
     recurring_monthly |-> form.recurring_monthly, date |-> form.date.date]

\* Income.objects.filter(user=user) and its like, no query parameter given
EntryFound(user, kind, id) ==
    \E e \in entries : e.kind = kind /\ e.id = id /\ e.user = user

Entry(kind, id) == CHOOSE e \in entries : e.kind = kind /\ e.id = id

EntryUrlIds(kind) ==
    { e.id : e \in { r \in entries : r.kind = kind } } \cup {nextEid[kind]}

\* POST income/add/, expense/add/, budget/add/ and the viewsets' create
CreateEntry(user, kind, form) ==
    /\ Served
    /\ IF EntryAccepted(kind, form, FALSE)
       THEN /\ entries' = entries \cup {NewEntry(user, kind, nextEid[kind], form)}
            /\ nextEid' = [nextEid EXCEPT ![kind] = @ + 1]
            /\ resp' = [status |-> 201, body |-> "row"]
       ELSE /\ resp' = [status |-> 400, body |-> "error"]
            /\ UNCHANGED <<entries, nextEid>>
    /\ UNCHANGED <<users, nextUid, goals, history, nextId, nextHid, workers, audit, now>>

EditedEntry(e, form) ==
    [e EXCEPT
       !.category = IF form.category = Omitted THEN @ ELSE form.category,
       !.custom_category = IF form.custom_category = Omitted THEN @
                           ELSE form.custom_category,
       !.recurring_monthly = IF form.recurring_monthly = Omitted THEN @
                             ELSE form.recurring_monthly,
       !.date = IF form.date.given = "omitted" THEN @ ELSE form.date.date]

\* PUT / PATCH income/<pk>/, expenses/<pk>/, budgets/<pk>/
EditEntry(user, kind, id, form, partial) ==
    /\ Served
    /\ IF ~EntryFound(user, kind, id)
       THEN /\ resp' = [status |-> 404, body |-> "error"]
            /\ UNCHANGED entries
       ELSE IF ~EntryAccepted(kind, form, partial)
       THEN /\ resp' = [status |-> 400, body |-> "error"]
            /\ UNCHANGED entries
       ELSE /\ entries' = (entries \ {Entry(kind, id)})
                              \cup {EditedEntry(Entry(kind, id), form)}
            /\ resp' = [status |-> 200, body |-> "row"]
    /\ UNCHANGED <<users, nextUid, goals, history, nextId, nextHid, workers, audit, now,
                   nextEid>>

\* DELETE income/<pk>/, expenses/<pk>/, budgets/<pk>/
DeleteEntry(user, kind, id) ==
    /\ Served
    /\ IF ~EntryFound(user, kind, id)
       THEN /\ resp' = [status |-> 404, body |-> "error"]
            /\ UNCHANGED entries
       ELSE /\ entries' = entries \ {Entry(kind, id)}
            /\ resp' = [status |-> 204, body |-> ""]
    /\ UNCHANGED <<users, nextUid, goals, history, nextId, nextHid, workers, audit, now,
                   nextEid>>

\* ---------------------------------------------------------- ledger listings
\* A piece of a query parameter: a run of decimal digits (its value and its
\* length) or some other text.
Num(val, width) == [numeric |-> TRUE, val |-> val, width |-> width]

Txt == [numeric |-> FALSE, val |-> 0, width |-> 0]

\* how many digits str(n) has, n >= 0
Digits(n) ==
    IF n < 10 THEN 1 ELSE IF n < 100 THEN 2 ELSE IF n < 1000 THEN 3
    ELSE IF n < 10000 THEN 4 ELSE 5

\* the month query parameter: not given (or empty), or a text that
\* split('-') cuts into `parts` pieces, of which the first two are followed
NoMonth == [given |-> FALSE, parts |-> 0, year |-> Txt, month |-> Txt]

MonthParam(parts, year, month) ==
    [given |-> TRUE, parts |-> parts, year |-> year, month |-> month]

\* 'YYYY-MM'
YearMonth(y, m) == MonthParam(2, Num(y, 4), Num(m, 2))

\* the year query parameter: not given (or empty), or a text
NoYear == [given |-> FALSE, text |-> Txt]

YearParam(text) == [given |-> TRUE, text |-> text]

\* f"{year}-{month}-01" as parse_date sees it: the date pattern wants four
\* digits, one or two digits, one or two digits
FirstOfMonthText(year, month) ==
    IF year.numeric /\ year.width = 4 /\ month.numeric /\ month.width \in {1, 2}
    THEN [form |-> "ymd", y |-> year.val, m |-> month.val, d |-> 1]
    ELSE Other

\* end_date: int(month_num) == 12 picks January of int(year) + 1, else
\* month int(month_num) + 1 of the year as written; int() of a text that
\* is no number raises ValueError
EndOfMonth(month) ==
    IF ~month.month.numeric THEN [is |-> "ValueError", date |-> 0]
    ELSE IF month.month.val = 12
    THEN IF ~month.year.numeric THEN [is |-> "ValueError", date |-> 0]
         ELSE parse_date(FirstOfMonthText(
                  Num(month.year.val + 1, Digits(month.year.val + 1)), Num(1, 2)))
    ELSE parse_date(FirstOfMonthText(month.year,
                        Num(month.month.val + 1, Digits(month.month.val + 1))))

\* the try block of get_queryset: the range [start_date, end_date] to
\* filter on, "none" when start_date or end_date is None, "ValueError" when
\* the unpacking of split('-'), parse_date or int() raises
MonthRange(month) ==
    IF month.parts # 2 THEN [is |-> "ValueError", start |-> 0, end |-> 0]
    ELSE LET start_date == parse_date(FirstOfMonthText(month.year, month.month))
         IN  IF start_date.is = "ValueError"
             THEN [is |-> "ValueError", start |-> 0, end |-> 0]
             ELSE LET end_date == EndOfMonth(month)
                  IN  IF end_date.is = "ValueError"
                      THEN [is |-> "ValueError", start |-> 0, end |-> 0]
                      ELSE IF start_date.is = "date" /\ end_date.is = "date"
                      THEN [is |-> "range", start |-> start_date.date,
                            end |-> end_date.date]
                      ELSE [is |-> "none", start |-> 0, end |-> 0]

\* Q(date__gte=start_date, date__lt=end_date)
\*   | Q(recurring_monthly='yes', date__lte=end_date)
\* (a NULL date satisfies no comparison)
InMonth(e, start_date, end_date) ==
    /\ e.date # NoDate
    /\ \/ e.date >= start_date /\ e.date < end_date
       \/ e.recurring_monthly = "yes" /\ e.date <= end_date

\* mutant: a month that cannot be read selects nothing
FilterByMonth_Strict(rows, month) ==
    IF ~month.given THEN rows
    ELSE IF MonthRange(month).is = "range"
    THEN { e \in rows : InMonth(e, MonthRange(month).start, MonthRange(month).end) }
    ELSE {}

\* if month: try: ... except (ValueError, TypeError): pass
FilterByMonth(rows, month) ==
    IF ~month.given THEN rows
    ELSE IF MonthRange(month).is = "range"
    THEN { e \in rows : InMonth(e, MonthRange(month).start, MonthRange(month).end) }
    ELSE rows

\* if year: queryset.filter(date__year=year), in the Income and Expense
\* viewsets only; the Budget viewset does not read the parameter
FilterByYear(kind, rows, year) ==
    IF kind = "budget" \/ ~year.given THEN rows
    ELSE { e \in rows : e.date # NoDate /\ e.date \div 10000 = year.text.val }

\* GET income/, expenses/, budgets/: the rows of get_queryset (their order,
\* by date, is not followed). A year that is no number makes the year
\* lookup raise ValueError outside any try block.
EntryListView(user, kind, year, month) ==
    IF kind # "budget" /\ year.given /\ ~year.text.numeric
    THEN [status |-> 500, body |-> {}]
    ELSE [status |-> 200,
          body |-> FilterByMonth(
                      FilterByYear(kind, { e \in entries : e.kind = kind /\ e.user = user },
                                   year),
                      month)]

\* -------------------------------------------------------------------- users
\* an e-mail address: a name, and for the address of a guest the random part
\* create_guest_user draws
Email(name, tag) == [name |-> name, tag |-> tag]

\* set_password(None): a password no text matches
Unusable == "!"

\* create_user(email, password, **extra_fields): is_active defaults to True
create_user(id, email, password, is_guest, at) ==
    [id |-> id, is_guest |-> is_guest, date_joined |-> at, email |-> email,
     password |-> password, is_active |-> TRUE]

\* create_guest_user(): guest_<uuid>@example.com, password=None
GuestUser(id, at) == create_user(id, Email("guest", id), Unusable, TRUE, at)

\* --------------------------------------------------------------- guest data
\* populate_dummy_data: the Income, Expense and Budget rows bulk_create
\* writes, in the order written, as
\* <<kind, category, custom_category, recurring_monthly, date>>
DummyLedger ==
    << <<"income", "salary", "", "yes", Ymd(current_year, 1, 15)>>,
       <<"income", "extra income", "", "yes", Ymd(current_year, 1, 15)>>,
       <<"income", "other", "", "yes", Ymd(current_year, 1, 15)>>,
       <<"income", "investments", "", "no", Ymd(current_year, 1, 15)>>,
       <<"income", "custom", "Etsy", "yes", Ymd(current_year, 5, 15)>>,
       <<"expense", "housing", "", "yes", Ymd(current_year, 1, 15)>>,
       <<"expense", "personal", "", "yes", Ymd(current_year, 1, 15)>>,
       <<"expense", "food", "", "yes", Ymd(current_year, 1, 15)>>,
       <<"expense", "entertainment", "", "yes", Ymd(current_year, 1, 15)>>,
       <<"expense", "debt", "", "yes", Ymd(current_year, 1, 15)>>,
       <<"expense", "savings", "", "yes", Ymd(current_year, 1, 15)>>,
       <<"budget", "savings", "", "yes", Ymd(current_year, 1, 15)>>,
       <<"budget", "debt", "", "yes", Ymd(current_year, 1, 15)>>,
       <<"budget", "food", "", "yes", Ymd(current_year, 1, 15)>> >>

\* how many rows of each of the three tables populate_dummy_data writes
DummyCount(kind) ==
    Cardinality({ i \in 1..Len(DummyLedger) : DummyLedger[i][1] = kind })

\* the primary key of the i-th of these rows: consecutive within its table
DummyEid(eids, i) ==
    eids[DummyLedger[i][1]]
        + Cardinality({ j \in 1..(i - 1) : DummyLedger[j][1] = DummyLedger[i][1] })

DummyLedgerRows(user, eids) ==
    { [kind |-> DummyLedger[i][1], id |-> DummyEid(eids, i), user |-> user,
       category |-> DummyLedger[i][2], custom_category |-> DummyLedger[i][3],
       recurring_monthly |-> DummyLedger[i][4], date |-> DummyLedger[i][5]]
      : i \in 1..Len(DummyLedger) }

\* populate_dummy_data: the General Saving and goal rows bulk_create writes, in the order written,
\* as <<kind, amount, goal_amount, category, deadline_ongoing, deadline>>
DummyGoals ==
    << <<"general_saving", 110000, 0, "", "", NoDate>>,
       <<"general_saving", 280000, 0, "", "", NoDate>>,
       <<"savings_goal", 80000, 250000, "travel / holiday", "no", Ymd(current_year, 1, 15)>>,
       <<"savings_goal", 2000000, 5000000, "new home", "yes", NoDate>>,
       <<"repayment_goal", 210000, 250000, "credit card", "no", Ymd(current_year, 10, 15)>>,
       <<"repayment_goal", 30000, 70000, "credit card", "no", Ymd(current_year, 8, 15)>> >>

\* create_dummy_history_entry: the entries written for every row of a kind,
\* as <<action, amount, date>>
DummyEntries(kind) ==
    IF kind = "general_saving"
    THEN << <<"add", 10000, Ymd(2025, 3, 20)>>, <<"remove", 3000, Ymd(2025, 4, 20)>> >>
    ELSE IF kind = "savings_goal"
    THEN << <<"add", 10000, Ymd(2025, 3, 20)>>, <<"remove", 5000, Ymd(2025, 4, 20)>> >>
    ELSE << <<"add", 20000, Ymd(2025, 2, 20)>>, <<"remove", 10000, Ymd(2025, 3, 20)>> >>

\* the primary key of the i-th dummy row: the rows of one table get
\* consecutive keys, from the table's next key ids[kind]
DummyId(ids, i) == ids[DummyGoals[i][1]] + (IF i % 2 = 1 THEN 0 ELSE 1)

DummyGoalRows(user, ids) ==
    { [kind |-> DummyGoals[i][1], id |-> DummyId(ids, i), user |-> user,
       amount |-> DummyGoals[i][2], is_null |-> FALSE,
       goal_amount |-> DummyGoals[i][3], category |-> DummyGoals[i][4],
       deadline_ongoing |-> DummyGoals[i][5], deadline |-> DummyGoals[i][6]]
      : i \in 1..Len(DummyGoals) }

\* History.objects.create(user=user, ...) for row i, entry j
DummyHistoryRows(user, ids, hid) ==
    { [id |-> hid + 2 * (i - 1) + (j - 1), user |-> user,
       date |-> DummyEntries(DummyGoals[i][1])[j][3],
       action |-> DummyEntries(DummyGoals[i][1])[j][1],
       amount |-> DummyEntries(DummyGoals[i][1])[j][2],
       content_type |-> DummyGoals[i][1], object_id |-> DummyId(ids, i)]
      : i \in 1..Len(DummyGoals), j \in 1..2 }

\* history variable: the dummy rows start with History rows no call wrote
DummyAudit(rows) ==
    [k \in { Key(g) : g \in rows } |->
        [c |-> (CHOOSE g \in rows : Key(g) = k).amount,
         n |-> 0, net |-> 0, clean |-> FALSE]]

\* POST guest-login/: create_guest_user, then populate_dummy_data
GuestLogin ==
    /\ Served
    /\ users' = users \cup {GuestUser(nextUid, now)}
    /\ nextUid' = nextUid + 1
    /\ goals' = goals \cup DummyGoalRows(nextUid, nextId)
    /\ nextId' = [k \in Kinds |-> nextId[k] + 2]
    /\ history' = history \cup DummyHistoryRows(nextUid, nextId, nextHid)
    /\ nextHid' = nextHid + 2 * Len(DummyGoals)
    /\ audit' = audit @@ DummyAudit(DummyGoalRows(nextUid, nextId))
    /\ entries' = entries \cup DummyLedgerRows(nextUid, nextEid)
    /\ nextEid' = [k \in EntryKinds |-> nextEid[k] + DummyCount(k)]
    /\ resp' = [status |-> 201, body |-> "user"]
    /\ UNCHANGED <<workers, now>>

\* ------------------------------------------------------------ user deletion
\* user.delete(): on_delete=CASCADE of the user foreign key of the ledger
\* tables, of the goal tables and of History
DeleteUsers(ids) ==
    /\ users' = { u \in users : u.id \notin ids }
    /\ goals' = { g \in goals : g.user \notin ids }
    /\ history' = { h \in history : h.user \notin ids }
    /\ audit' = Restrict(audit, { Key(g) : g \in goals' })
    /\ entries' = { e \in entries : e.user \notin ids }

\* POST logout/
logout_view(user) ==
    /\ Served
    /\ DeleteUsers({ u.id : u \in { x \in users : x.id = user /\ x.is_guest } })
    /\ resp' = [status |-> 200, body |-> "message"]
    /\ UNCHANGED <<nextUid, nextId, nextHid, workers, now, nextEid>>

\* POST delete-account/
delete_account_request(user, confirm, delete_reason, rating, mailed) ==
    /\ Served
    /\ IF ~confirm
       THEN /\ resp' = [status |-> 400, body |-> "error"]
            /\ UNCHANGED <<users, goals, history, audit, entries>>
       ELSE IF ~delete_reason
       THEN /\ resp' = [status |-> 400, body |-> "error"]
            /\ UNCHANGED <<users, goals, history, audit, entries>>
       ELSE IF rating < 1 \/ rating > 5
       THEN /\ resp' = [status |-> 400, body |-> "error"]
            /\ UNCHANGED <<users, goals, history, audit, entries>>
       ELSE IF ~mailed
       THEN /\ resp' = [status |-> 500, body |-> "error"]
            /\ UNCHANGED <<users, goals, history, audit, entries>>
       ELSE /\ DeleteUsers({user})
            /\ resp' = [status |-> 200, body |-> "message"]
    /\ UNCHANGED <<nextUid, nextId, nextHid, workers, now, nextEid>>

\* delete_old_guests (POST cleanup to an admin, or the command run by hand)
delete_old_guests ==
    /\ Served
    /\ DeleteUsers({ u.id : u \in { x \in users :
                        x.is_guest /\ x.date_joined < now - GuestMaxAgeHours } })
    /\ resp' = [status |-> 200, body |-> "message"]
    /\ UNCHANGED <<nextUid, nextId, nextHid, workers, now, nextEid>>

\* time passes
Tick ==
    /\ Served
    /\ now' = now + TickHours
    /\ UNCHANGED <<users, nextUid, goals, history, nextId, nextHid, resp, workers, audit,
                   entries, nextEid>>

\* ------------------------------------------- registration, activation, login
\* hours a token of default_token_generator lives (PASSWORD_RESET_TIMEOUT,
\* three days)
TokenLifeHours == 72

\* default_token_generator.make_token(user): the time it is made at and a
\* keyed hash over the user's pk, password and e-mail (and last_login, which
\* no view of this service writes)
make_token(user, at) ==
    [uid |-> user.id, password |-> user.password, email |-> user.email, made |-> at]

\* a text that is no token the generator ever made
NoToken == [uid |-> NoUser, password |-> "", email |-> Email("", 0), made |-> 0]

\* mutant: the token is matched on the user's pk alone
check_token_PkOnly(user, token) == token.uid = user.id

\* default_token_generator.check_token(user, token): the hash is made again
\* from the user as it is now and the token must not be older than the timeout
check_token(user, token) ==
    /\ token.uid = user.id
    /\ token.password = user.password
    /\ token.email = user.email
    /\ now - token.made <= TokenLifeHours

\* user.check_password(password)
check_password(user, password) ==
    user.password # Unusable /\ user.password = password

Passwords == {"pw1", "pw2"}

Emails == {Email("a", 0), Email("b", 0)}

\* tokens a request can carry: those mailed at registration, made from the
\* user as it was then (the password may have been reset since), and a text
\* that is none
Tokens ==
    {NoToken} \cup
    { make_token([u EXCEPT !.password = p], u.date_joined) :
         u \in users, p \in Passwords }

\* one more request served, registration and sign-in
AuthServed == nops < MaxAuthOps /\ nops' = nops + 1

UserOf(id) == CHOOSE u \in users : u.id = id

SaveUser(user) == { u \in users : u.id # user.id } \cup {user}

\* POST register/ : RegisterSerializer.is_valid (accepted: the names, the
\* e-mail syntax and the password validators; validate_email: no user has
\* the address), create_user, then perform_create sets is_active False and
\* saves; the activation mail carries make_token(user) and may fail unseen
RegisterView(email, password, accepted) ==
    /\ AuthServed
    /\ IF ~accepted \/ \E u \in users : u.email = email
       THEN /\ resp' = [status |-> 400, body |-> "errors"]
            /\ UNCHANGED <<users, nextUid>>
       ELSE /\ users' = users \cup
                  {[create_user(nextUid, email, password, FALSE, now)
                       EXCEPT !.is_active = FALSE]}
            /\ nextUid' = nextUid + 1
            /\ resp' = [status |-> 201, body |-> "user"]
    /\ UNCHANGED <<goals, history, nextId, nextHid, workers, audit, now, entries, nextEid>>

\* POST activate/<uidb64>/<token>/
ActivateAccountView(uid, token) ==
    /\ AuthServed
    /\ IF ~\E u \in users : u.id = uid
       THEN /\ resp' = [status |-> 400, body |-> "Invalid activation link."]
            /\ UNCHANGED users
       ELSE IF UserOf(uid).is_active
       THEN /\ resp' = [status |-> 400, body |-> "Account already activated."]
            /\ UNCHANGED users
       ELSE IF check_token(UserOf(uid), token)
       THEN /\ users' = SaveUser([UserOf(uid) EXCEPT !.is_active = TRUE])
            /\ resp' = [status |-> 200, body |-> "Account activated successfully."]
       ELSE /\ resp' = [status |-> 400, body |-> "Invalid or expired token."]
            /\ UNCHANGED users
    /\ UNCHANGED <<nextUid, goals, history, nextId, nextHid, workers, audit, now, entries,
                   nextEid>>

\* POST login/ : an invalid body raises inside the try block and is
\* answered 500 by 'except Exception'
LoginView(email, password, accepted) ==
    /\ AuthServed
    /\ resp' = IF ~accepted
               THEN [status |-> 500, body |-> "detail"]
               ELSE IF ~\E u \in users : u.email = email
               THEN [status |-> 404, body |-> "Email not found."]
               ELSE LET user == CHOOSE u \in users : u.email = email
                    IN  IF ~check_password(user, password)
                        THEN [status |-> 401, body |-> "Incorrect password."]
                        ELSE IF ~user.is_active
                        THEN [status |-> 403, body |-> "Account is not activated."]
                        ELSE [status |-> 200, body |-> "refresh, access, user"]
    /\ UNCHANGED <<users, nextUid, goals, history, nextId, nextHid, workers, audit, now,
                   entries, nextEid>>

\* POST reset-password-confirm/
PasswordResetConfirmView(given, uid, token, new_password) ==
    /\ AuthServed
    /\ IF ~given
       THEN /\ resp' = [status |-> 400, body |-> "Missing parameters."]
            /\ UNCHANGED users
       ELSE IF ~\E u \in users : u.id = uid
       THEN /\ resp' = [status |-> 400, body |-> "Invalid user."]
            /\ UNCHANGED users
       ELSE IF ~check_token(UserOf(uid), token)
       THEN /\ resp' = [status |-> 400, body |-> "Invalid or expired token."]
            /\ UNCHANGED users
       ELSE /\ users' = SaveUser([UserOf(uid) EXCEPT !.password = new_password])
            /\ resp' = [status |-> 200, body |-> "Password has been reset successfully."]
    /\ UNCHANGED <<nextUid, goals, history, nextId, nextHid, workers, audit, now, entries,
                   nextEid>>

\* time passes, longer than a token lives
TickDays ==
    /\ AuthServed
    /\ now' = now + TokenLifeHours + 1
    /\ UNCHANGED <<users, nextUid, goals, history, nextId, nextHid, resp, workers, audit,
                   entries, nextEid>>

\* --------------------------------------------------------------- the system
Idle == [pc |-> "idle", status |-> 0, kind |-> "", id |-> 0,
         action |-> "", amount |-> 0, date |-> 0, value |-> 0]

\* user 1: registered and activated some time ago
FirstUser ==
    [id |-> 1, is_guest |-> FALSE, date_joined |-> 0, email |-> Email("a", 0),
     password |-> "pw1", is_active |-> TRUE]

\* The database some time into service: user 1 is registered and holds the
\* Savings Goal (goal_amount 2500.00, current_amount 800.00),
\* and a guest session may just have been opened (what GuestLogin writes).
FirstGoal ==
    NewGoal(1, "savings_goal", 1, [given |-> "value", pence |-> 80000], 250000,
            GoalForm("travel / holiday", "no", DateInput(Ymd(current_year, 1, 15))))

FirstIds == [k \in Kinds |-> IF k = "savings_goal" THEN 2 ELSE 1]

FirstEids == [k \in EntryKinds |-> 1]

Init ==
    /\ now = 0
    /\ nops = 0
    /\ resp = [status |-> 0, body |-> ""]
    /\ workers = [w \in Workers |-> Idle]
    /\ \E guest \in BOOLEAN :
          IF guest
          THEN /\ users = {FirstUser, GuestUser(2, 0)}
               /\ nextUid = 3
               /\ goals = {FirstGoal} \cup DummyGoalRows(2, FirstIds)
               /\ nextId = [k \in Kinds |-> FirstIds[k] + 2]
               /\ history = DummyHistoryRows(2, FirstIds, 1)
               /\ nextHid = 1 + 2 * Len(DummyGoals)
               /\ audit = NewAudit(FirstGoal) @@ DummyAudit(DummyGoalRows(2, FirstIds))
               /\ entries = DummyLedgerRows(2, FirstEids)
               /\ nextEid = [k \in EntryKinds |-> FirstEids[k] + DummyCount(k)]
          ELSE /\ users = {FirstUser}
               /\ nextUid = 2
               /\ goals = {FirstGoal}
               /\ nextId = FirstIds
               /\ history = {}
               /\ nextHid = 1
               /\ audit = NewAudit(FirstGoal)
               /\ entries = {}
               /\ nextEid = FirstEids

\* the body an edit page sends back for the fields it does not change: the
\* values the row has
SameForm(kind, id) ==
    IF Exists(kind, id) /\ kind # "general_saving"
    THEN GoalForm(Row(kind, id).category, Row(kind, id).deadline_ongoing,
                  IF Row(kind, id).deadline = NoDate THEN NullDate
                  ELSE DateInput(Row(kind, id).deadline))
    ELSE DefaultForm(kind)

\* The goal engine: the requests about the running amounts and History, the
\* other goal fields sent as the pages send them.
Next ==
    \/ \E u \in UserIds, k \in Kinds, r \in RunningInputs, ga \in GoalAmountInputs :
          CreateGoal(u, k, r, ga, DefaultForm(k))
    \/ \E u \in UserIds, k \in Kinds, r \in RunningInputs, partial \in BOOLEAN :
          \E id \in UrlIds(k) : EditGoal(u, k, id, r, partial, SameForm(k, id))
    \/ \E u \in UserIds, k \in Kinds : \E id \in UrlIds(k) : DeleteGoal(u, k, id)
    \/ \E u \in UserIds, k \in Kinds, b \in UpdateBodies, inserted \in BOOLEAN :
          \E id \in UrlIds(k) : UpdateAmount(u, k, id, b.action, b.amount, b.date, inserted)
    \/ GuestLogin
    \/ \E u \in UserIds : logout_view(u)
    \/ \E u \in UserIds, confirm \in BOOLEAN, reason \in BOOLEAN, rating \in {0, 3},
          mailed \in BOOLEAN : delete_account_request(u, confirm, reason, rating, mailed)
    \/ delete_old_guests
    \/ Tick

Spec == Init /\ [][Next]_vars

\* ------------------------------------------------------- the field rules
\* The create and edit requests of the ledger and goal tables, with bodies
\* that try the rules on category, custom_category, deadline_ongoing and
\* deadline.
FormNext ==
    \/ \E u \in UserIds, k \in EntryKinds, f \in EntryForms : CreateEntry(u, k, f)
    \/ \E u \in UserIds, k \in EntryKinds, f \in EntryForms, partial \in BOOLEAN :
          \E id \in EntryUrlIds(k) : EditEntry(u, k, id, f, partial)
    \/ \E u \in UserIds, k \in EntryKinds : \E id \in EntryUrlIds(k) :
          DeleteEntry(u, k, id)
    \/ \E u \in UserIds, k \in Kinds, ga \in GoalAmountInputs, f \in GoalForms :
          CreateGoal(u, k, [given |-> "omitted", pence |-> 0], ga, f)
    \/ \E u \in UserIds, k \in Kinds, f \in GoalForms, partial \in BOOLEAN :
          \E id \in UrlIds(k) :
             EditGoal(u, k, id, [given |-> "omitted", pence |-> 0], partial, f)

FormSpec == Init /\ [][FormNext]_vars

\* ------------------------------------------------------------- accounts
\* Registration, activation by the mailed token, sign-in and password reset,
\* served one request at a time.
AuthNext ==
    \/ \E e \in Emails, p \in Passwords, accepted \in BOOLEAN :
          RegisterView(e, p, accepted)
    \/ \E uid \in UserIds \cup {nextUid}, t \in Tokens : ActivateAccountView(uid, t)
    \/ \E e \in Emails, p \in Passwords, accepted \in BOOLEAN : LoginView(e, p, accepted)
    \/ \E given \in BOOLEAN, uid \in UserIds \cup {nextUid}, t \in Tokens,
          p \in Passwords : PasswordResetConfirmView(given, uid, t, p)
    \/ TickDays

AuthSpec == Init /\ [][AuthNext]_vars

\* ----------------------------------------------------------- the ledger
\* Income, Expense and Budget rows written with dates around the ends of
\* months, for the listings by year and by month.
LedgerCategory(kind, form) ==
    [form EXCEPT !.category = IF kind = "income" THEN "other" ELSE "food"]

LedgerNext ==
    \/ \E u \in UserIds, k \in EntryKinds, f \in LedgerForms :
          CreateEntry(u, k, LedgerCategory(k, f))
    \/ \E u \in UserIds, k \in EntryKinds : \E id \in EntryUrlIds(k) :
          DeleteEntry(u, k, id)

LedgerSpec == Init /\ [][LedgerNext]_vars

\* ------------------------------------------------- amounts of either sign
\* update_amount served with every decimal the parse accepts, those not
\* above zero included
AmountNext ==
    \E u \in UserIds, k \in Kinds, b \in UpdateBodies \cup SignedBodies,
       inserted \in BOOLEAN :
          \E id \in UrlIds(k) : UpdateAmount(u, k, id, b.action, b.amount, b.date, inserted)

AmountSpec == Init /\ [][AmountNext]_vars

\* -------------------------------------------------- concurrent update_amount
\* Two server workers, each serving update_amount requests. Nothing in
\* update_amount or update_goal_with_history opens a transaction or locks the
\* row (no transaction.atomic, no select_for_update, no F() expression;
\* ATOMIC_REQUESTS is not set), so every ORM call is its own database
\* statement and the statements of two requests interleave.

\* lines 702-718 and services 15-18: get_object, the parsing, and the new
\* value computed on the worker's copy of the row
Begin(w, user, kind, id, action_type, amount_str, date_str) ==
    /\ Served
    /\ workers[w].pc = "idle"
    /\ LET pre == Precheck(user, kind, id, action_type, amount_str, date_str)
       IN  workers' = [workers EXCEPT ![w] =
              IF pre.status # 0
              THEN [Idle EXCEPT !.status = pre.status]
              ELSE [pc |-> "computed", status |-> 0, kind |-> kind, id |-> id,
                    action |-> action_type, amount |-> amount_str.pence,
                    date |-> parse_date(AppendDay(date_str)).date,
                    value |-> NewAmount(Row(kind, id).amount, action_type,
                                        amount_str.pence)]]
    /\ UNCHANGED <<users, nextUid, goals, history, nextId, nextHid, resp, audit, now, entries, nextEid>>

\* services line 22: goal_instance.save() writes the worker's copy
Save(w) ==
    /\ workers[w].pc = "computed"
    /\ Exists(workers[w].kind, workers[w].id)
    /\ goals' = SaveGoal(Row(workers[w].kind, workers[w].id), workers[w].value)
    /\ workers' = [workers EXCEPT ![w].pc = "saved"]
    /\ UNCHANGED <<users, nextUid, history, nextId, nextHid, resp, audit, now, nops, entries, nextEid>>

\* services lines 24-30 and the response
Insert(w, inserted) ==
    /\ workers[w].pc = "saved"
    /\ IF inserted
       THEN /\ history' = history \cup
                  {NewHistory(nextHid, workers[w].action, workers[w].amount,
                              workers[w].date, workers[w].kind, workers[w].id)}
            /\ nextHid' = nextHid + 1
            /\ audit' = AuditCall(<<workers[w].kind, workers[w].id>>,
                                  workers[w].action, workers[w].amount)
            /\ workers' = [workers EXCEPT ![w] = [Idle EXCEPT !.status = 200]]
       ELSE /\ UNCHANGED <<history, nextHid>>
            /\ audit' = AuditOther(<<workers[w].kind, workers[w].id>>)
            /\ workers' = [workers EXCEPT ![w] = [Idle EXCEPT !.status = 500]]
    /\ UNCHANGED <<users, nextUid, goals, nextId, resp, now, nops, entries, nextEid>>

ConcNext ==
    \/ \E w \in Workers, u \in UserIds, k \in Kinds, b \in UpdateBodies :
          \E id \in UrlIds(k) : Begin(w, u, k, id, b.action, b.amount, b.date)
    \/ \E w \in Workers : Save(w)
    \/ \E w \in Workers, inserted \in BOOLEAN : Insert(w, inserted)

ConcSpec == Init /\ [][ConcNext]_vars

\* ------------------------------------------------------------ history query
\* mutant: the filter on content_type is left out
HistoryOf_AnyKind(kind, id) == { h \in history : h.object_id = id }

\* History.objects.filter(content_type=..., object_id=pk)
HistoryOf(kind, id) == { h \in history : h.content_type = kind /\ h.object_id = id }

MaxDate(S) == CHOOSE d \in { h.date : h \in S } : \A h \in S : h.date <= d

\* .order_by('-date'): the orders the database may return the rows in; rows
\* of one date come in any order
RECURSIVE OrderByDateDesc(_)
OrderByDateDesc(S) ==
    IF S = {} THEN { << >> }
    ELSE UNION { { <<h>> \o t : t \in OrderByDateDesc(S \ {h}) }
                 : h \in { x \in S : x.date = MaxDate(S) } }

\* mutant: oldest first
listHistory_Ascending(kind, id) ==
    { [i \in 1..Len(s) |-> s[Len(s) + 1 - i]] : s \in OrderByDateDesc(HistoryOf(kind, id)) }

\* GET <kind>/<pk>/history/: the bodies the three history views may answer
listHistory(kind, id) == OrderByDateDesc(HistoryOf(kind, id))

\* mutant: the rendering of the target is not looked up again
get_related_object_repr_Stale(h) == "str"

\* HistorySerializer.get_related_object_repr: str() of the row the History
\* row refers to, None when that row is gone
get_related_object_repr(h) ==
    IF Exists(h.content_type, h.object_id) THEN "str" ELSE None

HistorySerializer(h) ==
    [id |-> h.id, user |-> h.user, action |-> h.action, amount |-> h.amount,
     date |-> h.date, content_type |-> h.content_type, object_id |-> h.object_id,
     related_object_repr |-> get_related_object_repr(h)]

\* the responses the history views may give: ListAPIView.list over the
\* queryset, no pagination
HistoryListView(kind, id) ==
    { [status |-> 200, body |-> [i \in 1..Len(s) |-> HistorySerializer(s[i])]]
      : s \in listHistory(kind, id) }

\* =================================================================== claims
\* the row of a table state with that key
RowIn(rows, kind, id) == CHOOSE g \in rows : g.kind = kind /\ g.id = id

\* the calendar date a well-formed date text of a request stands for
EffectiveDate(date_str) ==
    date_str.y * 10000 + date_str.m * 100
        + (IF date_str.form = "ym" THEN 15 ELSE date_str.d)

\* what a History row says happened to the running amount
Signed(h) == IF h.action = "add" THEN h.amount ELSE 0 - h.amount

RECURSIVE SignedSum(_)
SignedSum(S) ==
    IF S = {} THEN 0
    ELSE LET h == CHOOSE x \in S : TRUE IN Signed(h) + SignedSum(S \ {h})

\* the step is update_amount answering 200 to this request
Succeeds(u, k, id, b) ==
    /\ UpdateAmount(u, k, id, b.action, b.amount, b.date, TRUE)
    /\ resp'.status = 200

\* the only change of the step to the goal tables: the running amount of
\* row (k, id) moves by delta
MovesBy(k, id, delta) ==
    goals' = (goals \ {Row(k, id)})
                \cup {[Row(k, id) EXCEPT !.amount = Row(k, id).amount + delta]}

\* the only change of the step to History: one new row, for this request
LogsOne(k, id, b) ==
    /\ history \subseteq history'
    /\ \E h \in history' \ history :
          /\ history' \ history = {h}
          /\ h.action = b.action
          /\ h.amount = b.amount.pence
          /\ h.date = EffectiveDate(b.date)
          /\ h.content_type = k
          /\ h.object_id = id

\* C1: a successful update-amount call with action 'add' on a row the
\* requester owns raises the row's running field by exactly the amount and
\* inserts exactly one History row: action 'add', that amount, that
\* effective date, target reference (kind, id) of that row.
C1_AddRaisesAndLogs ==
    [][\A u \in UserIds, k \in Kinds, b \in UpdateBodies : \A id \in UrlIds(k) :
          (b.action = "add" /\ Succeeds(u, k, id, b)) =>
              /\ Row(k, id).user = u
              /\ MovesBy(k, id, b.amount.pence)
              /\ LogsOne(k, id, b)]_vars

\* C1 witness: the first goal after its first successful 'add' of 200.00
C1_Witness ==
    /\ Exists("savings_goal", 1)
    /\ resp = Updated("savings_goal")
    /\ audit[<<"savings_goal", 1>>].n = 1
    /\ RowIn(goals, "savings_goal", 1).amount = 100000
    /\ \E h \in HistoryOf("savings_goal", 1) : h.action = "add" /\ h.amount = 20000

\* C2: a successful update-amount call with action 'remove' lowers the
\* running field by exactly the amount, whatever the result (below zero
\* included), and inserts exactly one History row with action 'remove'.
C2_RemoveLowersUnclamped ==
    [][\A u \in UserIds, k \in Kinds, b \in UpdateBodies : \A id \in UrlIds(k) :
          (b.action = "remove" /\ Succeeds(u, k, id, b)) =>
              /\ MovesBy(k, id, 0 - b.amount.pence)
              /\ LogsOne(k, id, b)]_vars

\* C2 witness: a removal has taken a running amount below zero
C2_Witness ==
    /\ resp.status = 200
    /\ \E g \in goals :
          /\ g.amount < 0
          /\ audit[Key(g)].clean /\ audit[Key(g)].n = 1
          /\ \E h \in HistoryOf(g.kind, g.id) : h.action = "remove"

\* an 'add' has taken a running amount above the goal's target amount
C2_AboveTarget ==
    \E g \in goals :
        /\ g.kind # "general_saving" /\ g.amount > g.goal_amount
        /\ audit[Key(g)].clean /\ audit[Key(g)].n = 1
        /\ \E h \in HistoryOf(g.kind, g.id) : h.action = "add"

\* C3: when the History insert of an update-amount call cannot be completed,
\* the row's stored running amount is what it was before the call.
C3_FailedInsertLeavesAmount ==
    [][\A u \in UserIds, k \in Kinds, b \in UpdateBodies : \A id \in UrlIds(k) :
          ( /\ Precheck(u, k, id, b.action, b.amount, b.date).status = 0
            /\ UpdateAmount(u, k, id, b.action, b.amount, b.date, FALSE) )
          => goals' = goals]_vars

\* a worker is between get_object and its response for row (kind, id)
InFlight(kind, id) ==
    \E w \in Workers :
        workers[w].pc # "idle" /\ workers[w].kind = kind /\ workers[w].id = id

\* C4: once two update-amount requests on one row have both succeeded (and
\* nothing else wrote the row), its running amount is the initial value
\* plus/minus both amounts and both History rows exist, however the two
\* requests were interleaved.
C4_NoLostUpdate ==
    \A g \in goals :
        ( /\ audit[Key(g)].clean
          /\ audit[Key(g)].n = 2
          /\ ~InFlight(g.kind, g.id) )
        => /\ g.amount = audit[Key(g)].c + audit[Key(g)].net
           /\ Cardinality(HistoryOf(g.kind, g.id)) = 2

\* s is in order of effective date, most recent first
DateDescending(s) == \A i, j \in 1..Len(s) : i < j => s[i].date >= s[j].date

\* C5: a row created with running amount c and changed since by n successful
\* update-amount calls only holds c plus the amounts added minus the amounts
\* removed, and listHistory for it answers exactly n rows, the calls' rows,
\* most recent effective date first.
C5_CallsAddUp ==
    \A g \in goals :
        audit[Key(g)].clean =>
            /\ g.amount = audit[Key(g)].c + audit[Key(g)].net
            /\ \A s \in listHistory(g.kind, g.id) :
                  /\ Len(s) = audit[Key(g)].n
                  /\ DateDescending(s)
                  /\ { s[i] : i \in 1..Len(s) } = HistoryOf(g.kind, g.id)
                  /\ SignedSum(HistoryOf(g.kind, g.id)) = audit[Key(g)].net

\* C5 witness: 800.00, add 200.00 on 2025-04-01, remove 300.00 on 2025-06-15:
\* 700.00 and two rows, the removal first
C5_Witness ==
    /\ Exists("savings_goal", 1)
    /\ audit[<<"savings_goal", 1>>].clean
    /\ audit[<<"savings_goal", 1>>].n = 2
    /\ RowIn(goals, "savings_goal", 1).amount = 70000
    /\ \E s \in listHistory("savings_goal", 1) :
          Len(s) = 2 /\ s[1].action = "remove" /\ s[2].action = "add"

\* the step inserts one History row for a successful update-amount call on
\* the row it refers to
CallInsert(new) ==
    \E h \in new :
        /\ new = {h}
        /\ h.user = NoUser
        /\ resp' = Updated(h.content_type)
        /\ Exists(h.content_type, h.object_id)
        /\ MovesBy(h.content_type, h.object_id, Signed(h))

\* the step creates a guest account and inserts its demo History rows
SeedInsert(new) ==
    \E u \in users' \ users :
        /\ u.is_guest
        /\ \A h \in new :
              /\ h.user = u.id
              /\ \E g \in goals' \ goals :
                    Key(g) = <<h.content_type, h.object_id>> /\ g.user = u.id

\* C6 (as claimed): every History row is inserted by one successful
\* update-amount call on the row it refers to, and by nothing else.
C6_OnlyCallsInsert ==
    [][history' \subseteq history \/ CallInsert(history' \ history)]_vars

\* C6 (amended): every History row is inserted either by one successful
\* update-amount call on the row it refers to, or by the creation of a guest
\* account, which seeds demo rows for that guest's own goal rows; creating
\* or editing a goal row inserts none.
C6_OnlyCallsOrSeedInsert ==
    [][ \/ history' \subseteq history
        \/ CallInsert(history' \ history)
        \/ SeedInsert(history' \ history) ]_vars

\* C6 witness: rows of both origins in the store
C6_Witness ==
    /\ \E h \in history : h.user = NoUser /\ Exists(h.content_type, h.object_id)
    /\ \E h \in history : h.user # NoUser

\* C7: a step that changes the running amount of an existing goal row is an
\* update-amount call; an edit (PUT / PATCH) leaves it as it was.
C7_OnlyUpdateAmountWrites ==
    [][ (\E g \in goals : \E g2 \in goals' :
            /\ Key(g) = Key(g2)
            /\ (g.amount # g2.amount \/ g.is_null # g2.is_null))
        => \E u \in UserIds, k \in Kinds, b \in UpdateBodies, ins \in BOOLEAN :
              \E id \in UrlIds(k) :
                 UpdateAmount(u, k, id, b.action, b.amount, b.date, ins) ]_vars

\* C8: every goal row's running amount is the amount it was created with plus
\* its 'add' History amounts minus its 'remove' History amounts.
C8_BalanceMatchesHistory ==
    \A g \in goals :
        ~g.is_null =>
            g.amount = audit[Key(g)].c + SignedSum(HistoryOf(g.kind, g.id))

\* C9 (as claimed): a History row, once in the store, stays in it unchanged
\* through every later operation.
C9_HistoryNeverDeleted == [][history \subseteq history']_vars

\* C9 (amended): no operation changes a History row, and the only rows an
\* operation deletes are those of a user it deletes: a row without a user
\* (every row update-amount writes) stays unchanged through everything,
\* the deletion of its goal row, logout, account deletion and guest cleanup
\* included; a row with a user (the guest demo rows) goes with that user.
C9_HistoryGoesOnlyWithItsUser ==
    [][\A h \in history :
          \/ h \in history'
          \/ /\ h.user # NoUser
             /\ h.user \in UserIds
             /\ h.user \notin { u.id : u \in users' }
             /\ \A x \in history' : x.id # h.id ]_vars

\* C9 witness: a row written by update-amount has outlived its goal row
C9_Witness ==
    \E h \in history : h.user = NoUser /\ ~Exists(h.content_type, h.object_id)

\* C10: update-amount with an action other than 'add' and 'remove' (or none),
\* on a row the requester owns and with a good amount and date, is answered
\* 400 and changes neither the goal rows nor History.
C10_BadActionIs400 ==
    [][\A u \in UserIds, k \in Kinds, b \in UpdateBodies : \A id \in UrlIds(k) :
          ( /\ b.action \notin {"add", "remove"}
            /\ Found(u, k, id)
            /\ UpdateAmount(u, k, id, b.action, b.amount, b.date, TRUE) )
          => /\ resp'.status = 400
             /\ goals' = goals
             /\ history' = history ]_vars

\* the step leaves the goal rows and History as they were
NothingStored == goals' = goals /\ history' = history

\* the request bodies whose amount is no decimal
BadAmountBodies == { b \in UpdateBodies : b.amount.form \in {"text", "missing"} }

\* C11: update-amount on a row the requester owns with an amount that is no
\* decimal (some other text, or no amount at all) is answered 400 'Invalid
\* amount', whatever the action and the date are, and changes neither the
\* goal rows nor History.
C11_BadAmountIs400 ==
    [][\A u \in UserIds, k \in Kinds : \A id \in UrlIds(k) :
          Found(u, k, id) =>
             \A b \in BadAmountBodies, ins \in BOOLEAN :
                UpdateAmount(u, k, id, b.action, b.amount, b.date, ins)
                => /\ resp' = [status |-> 400, body |-> "Invalid amount"]
                   /\ NothingStored ]_vars

\* C11 witness: a request has been answered 'Invalid amount'
C11_Witness ==
    /\ nops > 0
    /\ resp = [status |-> 400, body |-> "Invalid amount"]
    /\ \E g \in goals : g.user = 1

\* C12: update-amount on a row the requester owns, with a good amount and a
\* date input that names no calendar date (text of another shape, no date, or
\* a well-shaped text for an impossible day), is answered 400 and changes
\* neither the goal rows nor History.
C12_BadDateIs400 ==
    [][\A u \in UserIds, k \in Kinds, b \in UpdateBodies, ins \in BOOLEAN :
          \A id \in UrlIds(k) :
             ( /\ b.amount.form = "decimal"
               /\ \/ b.date.form \in {"text", "missing"}
                  \/ /\ b.date.form = "ymd"
                     /\ ~(b.date.m \in 1..12 /\ b.date.d \in 1..DaysIn(b.date.y, b.date.m))
               /\ Found(u, k, id)
               /\ UpdateAmount(u, k, id, b.action, b.amount, b.date, ins) )
             => /\ resp'.status = 400
                /\ NothingStored ]_vars

\* years of the month texts compared for C13 (a leap year among them)
MonthYears == {2024, 2025}

\* C13: a request with date 'YYYY-MM' (a valid month) is served exactly as
\* the same request with date 'YYYY-MM-15': the same steps, so the same
\* response, running amount and History row, which is dated day 15; and the
\* two texts parse to the same date for every month.
C13_MonthMeansDay15 ==
    [][ /\ \A u \in UserIds, k \in Kinds, b \in UpdateBodies, ins \in BOOLEAN :
              \A id \in UrlIds(k) :
                 b.date.form = "ym" =>
                    ( UpdateAmount(u, k, id, b.action, b.amount, b.date, ins)
                      <=> UpdateAmount(u, k, id, b.action, b.amount,
                                       Day(b.date.y, b.date.m, 15), ins) )
        /\ \A y \in MonthYears, m \in 1..12 :
              /\ parse_date(AppendDay(Month(y, m))) = parse_date(AppendDay(Day(y, m, 15)))
              /\ parse_date(AppendDay(Month(y, m))) = [is |-> "date", date |-> Ymd(y, m, 15)]
      ]_vars

\* C13 witness: the removal dated 2025-06 / 2025-06-15 has been served
C13_Witness ==
    /\ resp.status = 200
    /\ \E h \in history :
          h.user = NoUser /\ h.action = "remove" /\ h.date = Ymd(2025, 6, 15)

\* C14: every History row has an amount above zero.
C14_HistoryAmountsPositive == \A h \in history : h.amount > 0

\* ids a history request can name for a kind
ListIds(kind) == UrlIds(kind) \cup { h.object_id : h \in history }

\* C15: listHistory(kind, id) answers exactly the History rows whose target
\* reference is (kind, id), each once, none of another id and none of
\* another kind with the same id, in order of effective date, most recent
\* first, whatever order they were inserted in.
C15_ListsTargetByDate ==
    \A k \in Kinds : \A id \in ListIds(k) : \A s \in listHistory(k, id) :
        /\ { s[i] : i \in 1..Len(s) }
              = { h \in history : h.content_type = k /\ h.object_id = id }
        /\ \A i, j \in 1..Len(s) : i # j => s[i] # s[j]
        /\ DateDescending(s)

\* C15 witness: a listing of three rows or more that is neither in order of
\* insertion nor in the reverse of it, while rows of another kind with the
\* same id and rows of the same kind with another id are in the store
C15_Witness ==
    \E k \in Kinds : \E id \in ListIds(k) : \E s \in listHistory(k, id) :
        /\ Len(s) >= 3
        /\ \E i \in 1..(Len(s) - 1) : s[i].id < s[i + 1].id
        /\ \E i \in 1..(Len(s) - 1) : s[i].id > s[i + 1].id
        /\ \E h \in history : h.content_type # k /\ h.object_id = id
        /\ \E h \in history : h.content_type = k /\ h.object_id # id

\* C16 (as claimed): the listing is empty whenever the row has no History
\* rows or no row of that kind has that id (any more).
C16_EmptyWhenGone ==
    \A k \in Kinds : \A id \in ListIds(k) : \A r \in HistoryListView(k, id) :
        ( ~Exists(k, id) \/ HistoryOf(k, id) = {} )
        => r.status = 200 /\ r.body = << >>

\* C16 (amended): the listing is never an error; it is empty exactly when no
\* History row refers to (kind, id), as for a row never mutated or an id
\* never used; after a row with History rows is deleted the listing still
\* answers those rows, each rendered with related_object_repr null.
C16_ListsDanglingRows ==
    \A k \in Kinds : \A id \in ListIds(k) : \A r \in HistoryListView(k, id) :
        /\ r.status = 200
        /\ Len(r.body) = Cardinality({ h \in history :
                                         h.content_type = k /\ h.object_id = id })
        /\ \A i \in 1..Len(r.body) :
              (r.body[i].related_object_repr = None) <=> ~Exists(k, id)

\* C16 witness: a row was mutated and then deleted and its listing still has
\* the call's row, while a row never mutated has an empty listing
C16_Witness ==
    /\ \E k \in Kinds : \E id \in ListIds(k) : \E r \in HistoryListView(k, id) :
          /\ ~Exists(k, id)
          /\ \E i \in 1..Len(r.body) :
                r.body[i].user = NoUser /\ r.body[i].related_object_repr = None
    /\ \E g \in goals : HistoryListView(g.kind, g.id) = {[status |-> 200, body |-> << >>]}

\* C17: two listHistory calls for one (kind, id) with no write between them
\* answer the same rows in the same order, rows of one effective date
\* included: a state allows one answer only.
C17_ListingIsDeterministic ==
    \A k \in Kinds : \A id \in ListIds(k) :
        \A s, t \in listHistory(k, id) : s = t

\* C18: update-amount addressed to an id no row of that kind has is answered
\* 404.
C18_UnknownIdIs404 ==
    [][\A u \in UserIds, k \in Kinds, b \in UpdateBodies, ins \in BOOLEAN :
          \A id \in UrlIds(k) :
             ( /\ ~Exists(k, id)
               /\ UpdateAmount(u, k, id, b.action, b.amount, b.date, ins) )
             => resp'.status = 404 ]_vars

\* C19: no create or edit request stores a row whose category is the escape
\* value 'custom' with an empty custom label: an Income, Expense or Budget
\* row written by a step has a label when its category is 'custom', no goal
\* row is written with category 'custom', and a create request with
\* category 'custom' and a label is answered 201.
C19_CustomNeedsLabel ==
    [][ /\ \A e \in entries' \ entries :
              e.category = "custom" => e.custom_category # ""
        /\ \A g \in goals' \ goals : g.category # "custom"
        /\ \A u \in UserIds, k \in EntryKinds, f \in EntryForms :
              ( /\ f.category = "custom"
                /\ f.custom_category \notin {"", Omitted}
                /\ f.recurring_monthly \in YesNo
                /\ f.date.given = "value"
                /\ CreateEntry(u, k, f) )
              => resp'.status = 201 ]_vars

\* C20: every stored Savings Goal and Repayment Goal has a deadline date if
\* and only if its deadline_ongoing is 'no'.
C20_DeadlineIffFixed ==
    \A g \in goals :
        g.kind # "general_saving" =>
            ((g.deadline # NoDate) <=> (g.deadline_ongoing = "no"))

\* ------------------------------------------------ listings by year and month
\* months asked for: <<year, month>> pairs
ListedMonths == { <<current_year, 11>>, <<current_year, 12>>, <<current_year + 1, 1>> }

FirstDay(ym) == Ymd(ym[1], ym[2], 1)

\* the first day of the month after, January of the next year after month 12
FirstDayAfter(ym) ==
    IF ym[2] = 12 THEN Ymd(ym[1] + 1, 1, 1) ELSE Ymd(ym[1], ym[2] + 1, 1)

LastDay(ym) == Ymd(ym[1], ym[2], DaysIn(ym[1], ym[2]))

\* GET <kind>/?month=YYYY-MM by `user`
ListedIn(user, kind, ym) ==
    EntryListView(user, kind, NoYear, YearMonth(ym[1], ym[2])).body

Owned(user, kind) == { e \in entries : e.user = user /\ e.kind = kind }

\* C21: in the listing filtered by month M, a dated recurring-monthly entry
\* of the requester is returned exactly when its date is not later than the
\* end of M: in its own month and every later month, in no earlier month.
C21_RecurringFromItsMonthOn ==
    \A u \in UserIds, k \in EntryKinds, ym \in ListedMonths :
        \A e \in Owned(u, k) :
            ( e.recurring_monthly = "yes" /\ e.date # NoDate )
            => ( e \in ListedIn(u, k, ym) <=> e.date <= LastDay(ym) )

\* C22: in the listing filtered by month M, an entry of the requester that is
\* not recurring-monthly is returned exactly when the first day of M <= its
\* date < the first day of the month after M (January of the next year after
\* month 12), for every month 'YYYY-MM' of a four-digit year.
C22_NonRecurringInItsMonthOnly ==
    \A u \in UserIds, k \in EntryKinds, ym \in ListedMonths \cup {<<9999, 12>>} :
        \A e \in Owned(u, k) :
            e.recurring_monthly = "no"
            => ( e \in ListedIn(u, k, ym)
                 <=> /\ e.date # NoDate
                     /\ FirstDay(ym) <= e.date
                     /\ e.date < FirstDayAfter(ym) )

\* C22, the months whose following month has a date (up to 9999-11): the
\* statement holds for them.
C22_HoldsUpTo999911 ==
    \A u \in UserIds, k \in EntryKinds, ym \in ListedMonths :
        \A e \in Owned(u, k) :
            e.recurring_monthly = "no"
            => ( e \in ListedIn(u, k, ym)
                 <=> /\ e.date # NoDate
                     /\ FirstDay(ym) <= e.date
                     /\ e.date < FirstDayAfter(ym) )

\* C23: the listing with year=Y answers only entries of the requester dated
\* in year Y, for Income, Expense and Budget alike.
C23_YearListsThatYearOnly ==
    \A u \in UserIds, k \in EntryKinds, y \in {current_year, current_year + 1} :
        LET r == EntryListView(u, k, YearParam(Num(y, 4)), NoMonth)
        IN  /\ r.status = 200
            /\ \A e \in r.body :
                  e.user = u /\ e.kind = k /\ e.date # NoDate /\ e.date \div 10000 = y

\* month parameters that are no 'YYYY-MM': one piece ('202512'), three
\* pieces ('2025-12-01'), a year or a month that is no number ('abcd-12',
\* 'abcd-06', '2025-xy'), a year of five digits or of two, months 0 and 13
UnreadableMonths ==
    { MonthParam(1, Num(202512, 6), Txt),
      MonthParam(3, Num(current_year, 4), Num(12, 2)),
      MonthParam(2, Txt, Num(12, 2)),
      MonthParam(2, Txt, Num(6, 2)),
      MonthParam(2, Num(current_year, 4), Txt),
      MonthParam(2, Num(12025, 5), Num(12, 2)),
      MonthParam(2, Num(25, 2), Num(11, 2)),
      MonthParam(2, Num(current_year, 4), Num(0, 2)),
      MonthParam(2, Num(current_year, 4), Num(13, 2)) }

\* C30: a month parameter that cannot be read as 'YYYY-MM' is ignored
\* without an error: the listing is answered 200 and equals the listing of
\* the same request without the month parameter, with or without a year.
C30_UnreadableMonthIgnored ==
    \A u \in UserIds, k \in EntryKinds, m \in UnreadableMonths :
        \A y \in {NoYear, YearParam(Num(current_year, 4))} :
            /\ EntryListView(u, k, y, m).status = 200
            /\ EntryListView(u, k, y, m) = EntryListView(u, k, y, NoMonth)

\* C30 witness: a requester has entries that a readable month would leave
\* out (2025-11 lists fewer rows than no month does), and the listing for
\* month '2025-13' has them all
C30_Witness ==
    \E u \in UserIds, k \in EntryKinds :
        /\ ListedIn(u, k, <<current_year, 11>>) # Owned(u, k)
        /\ ListedIn(u, k, <<current_year, 11>>) # {}
        /\ EntryListView(u, k, NoYear,
                         MonthParam(2, Num(current_year, 4), Num(13, 2))).body
              = Owned(u, k)

\* ------------------------------------------------------ guests and ownership
\* C24: a run of delete_old_guests deletes exactly the guests that joined
\* more than 24 hours before the run; a guest that joined less than 24
\* hours ago is kept and no other user is deleted.
C24_DeletesGuestsOlderThan24h ==
    [][ delete_old_guests
        => users' = { u \in users : ~(u.is_guest /\ u.date_joined < now - 24) } ]_vars

\* C25: an update-amount request by a user who does not own the addressed
\* row never reaches the mutation: no running amount changes and no History
\* row is made, whatever the body and whether or not an insert would succeed.
C25_NonOwnerChangesNothing ==
    [][ \/ goals' = goals /\ history' = history
        \/ ~\E g \in goals :
              \E u \in UserIds \ {g.user}, b \in UpdateBodies, ins \in BOOLEAN :
                 UpdateAmount(u, g.kind, g.id, b.action, b.amount, b.date, ins) ]_vars

\* C25 witness: a user addressed a row of another user that has a balance
\* to change, and was answered that no row matches
C25_Witness ==
    /\ resp.status = 500
    /\ resp.body = "No row matches the given query."
    /\ \E g \in goals : \E u \in UserIds : g.user # u /\ ~g.is_null
    /\ history # {}
    /\ \A h \in history : h.user # NoUser

\* C26: a history listing answers only History rows of rows the requester
\* owns: no user is answered rows of another user's row, whatever the id.
C26_ListsOwnGoalsOnly ==
    \A u \in UserIds, k \in Kinds : \A id \in ListIds(k) :
        \A r \in HistoryListView(k, id) :
            \/ r.body = << >>
            \/ ~\E g \in goals : g.kind = k /\ g.id = id /\ g.user # u

\* C27: after a step that deletes a user, no History row points to a row
\* that belonged to that user, seeded or made by update-amount.
C27_NoHistoryOfDeletedUser ==
    [][ \A g \in goals :
           g.user \notin { u.id : u \in users' }
           => ~\E h \in history' : h.content_type = g.kind /\ h.object_id = g.id ]_vars

\* C28: for every stored Savings Goal or Repayment Goal, whatever it was
\* created or edited with, an update-amount request of its owner with action
\* add or remove, a parseable amount and a valid date (and a History insert
\* that succeeds) is answered 200 and changes the running amount.
C28_GoalsAlwaysUpdatable ==
    [][ \A g \in goals : \A b \in UpdateBodies :
           ( /\ g.kind \in {"savings_goal", "repayment_goal"}
             /\ b.action \in {"add", "remove"}
             /\ DecimalOk(b.amount)
             /\ parse_date(AppendDay(b.date)).is = "date"
             /\ UpdateAmount(g.user, g.kind, g.id, b.action, b.amount, b.date, TRUE) )
           => /\ resp'.status = 200
              /\ RowIn(goals', g.kind, g.id).amount
                    = NewAmount(g.amount, b.action, b.amount.pence) ]_vars

\* ------------------------------------------------------------- activation
\* a token made for `user` that is still good: made from the user's pk and
\* from the password and e-mail the user has now, no more than three days ago
ValidTokenFor(user, token) ==
    /\ token.uid = user.id
    /\ token.password = user.password
    /\ token.email = user.email
    /\ now - token.made <= 72

Inactive == { u \in users : ~u.is_active }

C29_TokenRefused ==
    /\ resp = [status |-> 400, body |-> "Invalid or expired token."]
    /\ \E u \in Inactive : ~u.is_guest /\ u.id > 1

\* C29 witness of the other end: a registered user was activated and then
\* signed in
C29_ActivatedSignedIn ==
    /\ resp = [status |-> 200, body |-> "refresh, access, user"]
    /\ \E u \in users : u.id > 1 /\ ~u.is_guest /\ u.is_active

============================================================================
